---- MODULE Spec2Model ----
(***************************************************************************)
(* Model of daily_scraper.py: the retrying fetch, the selector-based       *)
(* parse, the plain-text / HTML rendering and the main pipeline.           *)
(*                                                                         *)
(* Text is a sequence of one-character strings, so that joining,           *)
(* splitting, trimming, substring tests and escaping are computed.         *)
(* Durations are integers in milliseconds.                                 *)
(***************************************************************************)
EXTENDS Integers, Sequences, FiniteSets, TLC

\* ------------------------------------------------------------------ bounds
\* largest configured RETRIES explored for fetch() on its own
MaxRetries == 3
\* longest list of matched nodes, largest max_items for parse() on its own
MaxNodes == 3
MaxItems == 4
\* longest fragment list for render_table_for_list on its own
MaxFrags == 2
\* largest configured RETRIES explored for a run of main
MainMaxRetries == 2

\* -------------------------------------------------------------------- state
\* retry configuration, lines 55-57 (durations in milliseconds)
VARIABLES RETRIES, BACKOFF_FACTOR, MAX_BACKOFF

\* fetch(): fpc is its position, "idle" (not called), "request" (about to
\* call requests.get), "sleep" (about to time.sleep), "returned", "raised";
\* log lists the network calls and sleeps of the run in the order made
VARIABLES fpc, attempt, last_exc, fetch_ret, fetch_exc, log

\* parse(): selectors and max_items are its arguments; page is what
\* soup.select(selector) returns for each selector, in document order;
\* ppc is its position, "idle", "node" (line 123), "row" (line 139),
\* "returned"
VARIABLES selectors, max_items, page,
          ppc, items_per_selector, sel_idx, node_idx, row_idx,
          selector_results, count, results

\* main(): the configuration it tests (lines 36, 45-52), args, its position
\* pc ("start", "fetch", "parse", "deliver", "exit"), the process exit
\* status (-1 while running), the two bodies and what was printed
VARIABLES SCRAPE_URL, CSS_SELECTOR, SENDGRID_API_KEY, EMAIL_TO, EMAIL_FROM, SMTP_HOST,
          dry_run, inspect,
          pc, exit_code, body, html_body, stdout

\* send_via_sendgrid() / send_email(): position dpc as for fetch
VARIABLES dpc, d_attempt, d_last_exc

\* render_table_for_list(lst, title) called on its own
VARIABLES r_lst, r_title, rpc, r_out

configVars == <<RETRIES, BACKOFF_FACTOR, MAX_BACKOFF>>
fetchVars == <<fpc, attempt, last_exc, fetch_ret, fetch_exc>>
parseArgs == <<selectors, max_items, page>>
parseVars == <<ppc, items_per_selector, sel_idx, node_idx, row_idx,
               selector_results, count, results>>
mainArgs == <<SCRAPE_URL, CSS_SELECTOR, SENDGRID_API_KEY, EMAIL_TO, EMAIL_FROM, SMTP_HOST,
              dry_run, inspect>>
mainVars == <<pc, exit_code, body, html_body, stdout>>
sendVars == <<dpc, d_attempt, d_last_exc>>
renderVars == <<r_lst, r_title, rpc, r_out>>
inputs == <<configVars, parseArgs, mainArgs>>
vars == <<configVars, fetchVars, log, parseArgs, parseVars, mainArgs, mainVars,
          sendVars, renderVars>>

\* --------------------------------------------------------------- exceptions
NoneExc == [kind |-> "None", code |-> 0]
\* ScrapeError(f"Server returned {code}")
ServerReturned(code) == [kind |-> "ScrapeError", code |-> code]
\* requests.HTTPError raised by r.raise_for_status()
HTTPError(code) == [kind |-> "HTTPError", code |-> code]
\* any other requests.RequestException (DNS, refused, timeout)
TransportError == [kind |-> "RequestException", code |-> 0]

\* raise ScrapeError(last_exc), line 108
ScrapeErrorOf(cause) == [kind |-> "ScrapeError", code |-> 0, cause |-> cause]
NotRaised == [kind |-> "None", code |-> 0, cause |-> NoneExc]

\* what requests.get may do: a response with a status, or a transport fault
StatusCodes == {200, 404, 429, 503}
Responses == [kind : {"status"}, code : StatusCodes]
               \cup {[kind |-> "transport", code |-> 0]}

\* the test of line 86
IsRetryableStatus(code) == code >= 500 \/ code = 429

\* requests' Response.raise_for_status(): raises HTTPError for 4xx and 5xx
RaisesForStatus(code) == 400 <= code /\ code < 600

\* One pass through the try block (lines 83-95) for response `resp`:
\* "return" when r.text is returned, otherwise the exception stored in
\* last_exc.  HTTPError is a requests.RequestException, so the except clause
\* of line 93 catches the error raise_for_status() raises.
TryRequest(resp) ==
  IF resp.kind = "transport"
    THEN [flow |-> "except", exc |-> TransportError]
  ELSE IF IsRetryableStatus(resp.code)
    THEN [flow |-> "fallthrough", exc |-> ServerReturned(resp.code)]
  ELSE IF RaisesForStatus(resp.code)
    THEN [flow |-> "except", exc |-> HTTPError(resp.code)]
  ELSE [flow |-> "return", exc |-> NoneExc]

\* a faulty variant of the next definition: the first fault is kept
KeepFirstExc(prev, exc) == IF prev = NoneExc THEN exc ELSE prev
\* value of last_exc after an attempt that did not return (lines 89, 95)
StoreLastExc(prev, exc) == exc

Min(a, b) == IF a <= b THEN a ELSE b

\* a faulty variant of Backoff: the cap is forgotten
UncappedBackoff(k, factor, cap) == factor * (2 ^ (k - 1))
\* line 101
Backoff(k, factor, cap) == Min(cap, factor * (2 ^ (k - 1)))

\* random.uniform(0, backoff * 0.1), line 102: both ends and the middle
Jitters(backoff) == {0, backoff \div 20, backoff \div 10}

\* the test of line 97
LoopEnds(k, retries) == k = retries

Event(ev, k, kind, code, base, jitter) ==
  [ev |-> ev, attempt |-> k, kind |-> kind, code |-> code,
   base |-> base, jitter |-> jitter]

FetchIdle ==
  /\ fpc = "idle"
  /\ attempt = 0
  /\ last_exc = NoneExc
  /\ fetch_ret = "None"
  /\ fetch_exc = NotRaised
  /\ log = <<>>

\* fetch(url) is entered: lines 79-82.  range(1, RETRIES + 1) is empty when
\* RETRIES < 1, and the function goes straight to line 108.
FetchCall ==
  /\ pc = "fetch"
  /\ fpc = "idle"
  /\ last_exc' = NoneExc
  /\ IF RETRIES >= 1
       THEN /\ fpc' = "request"
            /\ attempt' = 1
            /\ fetch_exc' = fetch_exc
       ELSE /\ fpc' = "raised"
            /\ attempt' = attempt
            /\ fetch_exc' = ScrapeErrorOf(last_exc')
  /\ UNCHANGED <<fetch_ret, log>>
  /\ UNCHANGED <<inputs, parseVars, mainVars, sendVars, renderVars>>

\* one attempt: lines 83-98, and 107-108 when the loop ends
FetchAttempt(resp) ==
  /\ fpc = "request"
  /\ log' = Append(log, Event("request", attempt, resp.kind, resp.code, 0, 0))
  /\ LET t == TryRequest(resp) IN
     IF t.flow = "return"
       THEN /\ fpc' = "returned"
            /\ fetch_ret' = "r.text"
            /\ UNCHANGED <<last_exc, fetch_exc>>
       ELSE /\ last_exc' = StoreLastExc(last_exc, t.exc)
            /\ fetch_ret' = fetch_ret
            /\ IF LoopEnds(attempt, RETRIES)
                 THEN /\ fpc' = "raised"
                      /\ fetch_exc' = ScrapeErrorOf(last_exc')
                 ELSE /\ fpc' = "sleep"
                      /\ fetch_exc' = fetch_exc
  /\ UNCHANGED attempt
  /\ UNCHANGED <<inputs, parseVars, mainVars, sendVars, renderVars>>

\* lines 100-105, then the next iteration of the for loop
FetchSleep(jitter) ==
  /\ fpc = "sleep"
  /\ LET backoff == Backoff(attempt, BACKOFF_FACTOR, MAX_BACKOFF) IN
       /\ jitter \in Jitters(backoff)
       /\ log' = Append(log, Event("sleep", attempt, "", 0, backoff, jitter))
  /\ attempt' = attempt + 1
  /\ fpc' = "request"
  /\ UNCHANGED <<last_exc, fetch_ret, fetch_exc>>
  /\ UNCHANGED <<inputs, parseVars, mainVars, sendVars, renderVars>>

\* --------------------------------------------------------------------- text
\* the character U+2014 of line 165
EmDash == "U+2014"
\* the character U+00E9 (e with acute accent), a letter that page text may
\* hold and that is outside A-Z and a-z
EAcute == "U+00E9"

\* Python's None where a string may stand
None == <<"None">>
Falsy(s) == s = None \/ s = <<>>

\* sep.join(parts)
RECURSIVE Join(_, _)
Join(sep, parts) ==
  IF parts = <<>> THEN <<>>
  ELSE IF Len(parts) = 1 THEN parts[1]
  ELSE parts[1] \o sep \o Join(sep, Tail(parts))

\* sub in s
Contains(s, sub) ==
  \E i \in 1..(Len(s) - Len(sub) + 1) : SubSeq(s, i, i + Len(sub) - 1) = sub

\* s.split(ch) for a one-character separator
RECURSIVE Split(_, _)
Split(s, ch) ==
  LET at == {i \in 1..Len(s) : s[i] = ch} IN
  IF at = {} THEN <<s>>
  ELSE LET i == CHOOSE i \in at : \A j \in at : i <= j IN
       <<SubSeq(s, 1, i - 1)>> \o Split(SubSeq(s, i + 1, Len(s)), ch)

Whitespace == {" ", "\t", "\n"}

\* s.strip()
Strip(s) ==
  LET ink == {i \in 1..Len(s) : s[i] \notin Whitespace} IN
  IF ink = {} THEN <<>>
  ELSE SubSeq(s, CHOOSE i \in ink : \A j \in ink : i <= j,
                 CHOOSE i \in ink : \A j \in ink : j <= i)

\* ------------------------------------------------------------ matched nodes
\* What the extractor reads of a BeautifulSoup node: its tag name, the
\* stripped texts of its td/th cells (find_all), the cell texts of each tr
\* under it (select("tr")), its own text (get_text), its href attribute and
\* the href of its first descendant <a> (None when absent).
Node(name, cells, rows, text, href, a_href) ==
  [name |-> name, cells |-> cells, rows |-> rows, text |-> text,
   href |-> href, a_href |-> a_href]

\* " | ".join(cell.get_text(strip=True) for cell in cells), lines 131 and 144
RowText(cells) == Join(<<" ", "|", " ">>, cells)

\* line 137: n.name in ("table", "tbody", "thead") or n.find("tr")
IsTableLike(n) == n.name \in {"table", "tbody", "thead"} \/ n.rows # <<>>

\* lines 150-157: the link target of an ordinary node
LinkTarget(n) ==
  LET own == IF n.name = "a" /\ n.href # None THEN n.href ELSE None IN
  IF Falsy(own) /\ n.a_href # None THEN n.a_href ELSE own

\* lines 159-168: the fragments (none or one) an ordinary node appends
OrdinaryFragments(selector, n) ==
  IF Contains(selector, <<"r", "e", "p", "l", "a", "y", "-", "c", "e", "n", "t", "e", "r", "-", "a", "s", "s", "i", "g", "n", "m", "e", "n", "t">>)
    THEN IF n.text # <<>> THEN <<n.text>> ELSE <<>>
  ELSE IF ~Falsy(LinkTarget(n))
    THEN <<n.text \o <<" ", EmDash, " ">> \o LinkTarget(n)>>
  ELSE IF n.text # <<>> THEN <<n.text>> ELSE <<>>

\* line 169: what an ordinary node adds to count
OrdinaryCount(selector, n) == 1

\* a faulty variant of ItemsPerSelector: the division rounds up
ItemsPerSelectorCeil(max, sels) ==
  IF sels # <<>> THEN (max + Len(sels) - 1) \div Len(sels) ELSE max
\* line 115
ItemsPerSelector(max, sels) ==
  IF sels # <<>> THEN max \div Len(sels) ELSE max

\* --------------------------------------------------- Dict[str, List[str]]
\* a Python dict: entries in insertion order, one per key
DictKeys(d) == [i \in 1..Len(d) |-> d[i].key]
DictHas(d, k) == \E i \in 1..Len(d) : d[i].key = k
DictGet(d, k) == d[CHOOSE i \in 1..Len(d) : d[i].key = k].val
\* a faulty variant of DictSet: the entry set last comes first
DictSetFront(d, k, v) ==
  <<[key |-> k, val |-> v]>> \o SelectSeq(d, LAMBDA e : e.key # k)
\* d[k] = v: a new key goes last, a known key keeps its place
DictSet(d, k, v) ==
  IF DictHas(d, k)
    THEN [i \in 1..Len(d) |-> IF d[i].key = k THEN [key |-> k, val |-> v] ELSE d[i]]
    ELSE Append(d, [key |-> k, val |-> v])

\* ------------------------------------------------------------------ parse()

ParseIdle ==
  /\ ppc = "idle"
  /\ items_per_selector = 0
  /\ sel_idx = 0 /\ node_idx = 0 /\ row_idx = 0
  /\ selector_results = <<>>
  /\ count = 0
  /\ results = <<>>

\* lines 113-121: entry, and the first selector's loop set up
ParseCall ==
  /\ pc = "parse"
  /\ ppc = "idle"
  /\ items_per_selector' = ItemsPerSelector(max_items, selectors)
  /\ results' = <<>>
  /\ selector_results' = <<>>
  /\ count' = 0
  /\ row_idx' = 0
  /\ IF selectors = <<>>
       THEN ppc' = "returned" /\ sel_idx' = 0 /\ node_idx' = 0
       ELSE ppc' = "node" /\ sel_idx' = 1 /\ node_idx' = 1
  /\ UNCHANGED <<inputs, fetchVars, log, mainVars, sendVars, renderVars>>

\* one iteration of `for n in nodes` that passes the test of line 124
ParseNode ==
  /\ ppc = "node"
  /\ node_idx <= Len(page[selectors[sel_idx]])
  /\ count < items_per_selector
  /\ LET selector == selectors[sel_idx]
         n == page[selector][node_idx] IN
     IF n.name = "tr"
       THEN /\ IF n.cells # <<>>
                 THEN /\ selector_results' = Append(selector_results, RowText(n.cells))
                      /\ count' = count + 1
                 ELSE UNCHANGED <<selector_results, count>>
            /\ node_idx' = node_idx + 1
            /\ UNCHANGED <<ppc, row_idx>>
     ELSE IF IsTableLike(n)
       THEN /\ ppc' = "row"
            /\ row_idx' = 1
            /\ UNCHANGED <<selector_results, count, node_idx>>
     ELSE /\ selector_results' = selector_results \o OrdinaryFragments(selector, n)
          /\ count' = count + OrdinaryCount(selector, n)
          /\ node_idx' = node_idx + 1
          /\ UNCHANGED <<ppc, row_idx>>
  /\ UNCHANGED <<items_per_selector, sel_idx, results>>
  /\ UNCHANGED <<inputs, fetchVars, log, mainVars, sendVars, renderVars>>

\* lines 139-147: one iteration of `for r in rows`, or its end (`continue`)
ParseRow ==
  /\ ppc = "row"
  /\ LET rows == page[selectors[sel_idx]][node_idx].rows IN
     IF row_idx <= Len(rows) /\ count < items_per_selector
       THEN /\ IF rows[row_idx] # <<>>
                 THEN /\ selector_results' = Append(selector_results, RowText(rows[row_idx]))
                      /\ count' = count + 1
                 ELSE UNCHANGED <<selector_results, count>>
            /\ row_idx' = row_idx + 1
            /\ UNCHANGED <<ppc, node_idx>>
       ELSE /\ ppc' = "node"
            /\ row_idx' = 0
            /\ node_idx' = node_idx + 1
            /\ UNCHANGED <<selector_results, count>>
  /\ UNCHANGED <<items_per_selector, sel_idx, results>>
  /\ UNCHANGED <<inputs, fetchVars, log, mainVars, sendVars, renderVars>>

\* the node loop ends (exhausted, or break at line 125): line 171, then the
\* next selector (lines 117-121) or `return results`
ParseEndSelector ==
  /\ ppc = "node"
  /\ node_idx > Len(page[selectors[sel_idx]]) \/ count >= items_per_selector
  /\ results' = DictSet(results, selectors[sel_idx], selector_results)
  /\ IF sel_idx = Len(selectors)
       THEN /\ ppc' = "returned"
            /\ UNCHANGED <<sel_idx, node_idx, selector_results, count>>
       ELSE /\ ppc' = "node"
            /\ sel_idx' = sel_idx + 1
            /\ node_idx' = 1
            /\ selector_results' = <<>>
            /\ count' = 0
  /\ UNCHANGED <<items_per_selector, row_idx>>
  /\ UNCHANGED <<inputs, fetchVars, log, mainVars, sendVars, renderVars>>


\* ---------------------------------------------------------------- rendering
\* html.escape(s) (quote=True), one character at a time
EscapeChar(c) ==
  CASE c = "&" -> <<"&", "a", "m", "p", ";">>
    [] c = "<" -> <<"&", "l", "t", ";">>
    [] c = ">" -> <<"&", "g", "t", ";">>
    [] c = "\"" -> <<"&", "q", "u", "o", "t", ";">>
    [] c = "'" -> <<"&", "#", "x", "2", "7", ";">>
    [] OTHER -> <<c>>

RECURSIVE EscapeHtml(_)
EscapeHtml(s) ==
  IF s = <<>> THEN <<>> ELSE EscapeChar(Head(s)) \o EscapeHtml(Tail(s))

Letters ==
  {"A", "B", "C", "D", "E", "F", "G", "H", "I", "J", "K", "L", "M",
   "N", "O", "P", "Q", "R", "S", "T", "U", "V", "W", "X", "Y", "Z",
   "a", "b", "c", "d", "e", "f", "g", "h", "i", "j", "k", "l", "m",
   "n", "o", "p", "q", "r", "s", "t", "u", "v", "w", "x", "y", "z"}

\* a faulty variant of HasLetter: digits count as well
HasLetterOrDigit(p) ==
  \E i \in 1..Len(p) :
    p[i] \in Letters \cup {"0", "1", "2", "3", "4", "5", "6", "7", "8", "9"}
\* re.search(r"[A-Za-z]", p)
HasLetter(p) == \E i \in 1..Len(p) : p[i] \in Letters

\* [p.strip() for p in s.split("|")], lines 256 and 267
Parts(s) == LET raw == Split(s, "|") IN [i \in 1..Len(raw) |-> Strip(raw[i])]

\* xs[:-1]
DropLast(xs) == SubSeq(xs, 1, Len(xs) - 1)
\* xs[1:]
DropFirst(xs) == SubSeq(xs, 2, Len(xs))

\* lines 243-251: `title` is None for an untitled section
ForceNoHeader(title) == ~Falsy(title) /\ Contains(title, <<"n", "b", "a", "-", "r", "e", "f", "s", "-", "c", "o", "n", "t", "e", "n", "t">>)
DropLastColumn(title) == ~Falsy(title) /\ Contains(title, <<"g", "l", "-", "r", "e", "f", "s", "-", "c", "o", "n", "t", "e", "n", "t">>)

\* a faulty variant of KeptCells: the first column is dropped
KeptCellsDropFirst(title, parts) ==
  IF DropLastColumn(title) /\ Len(parts) > 0 THEN DropFirst(parts) ELSE parts
\* lines 259-260 and 268-269: the cells kept of a split fragment
KeptCells(title, parts) ==
  IF DropLastColumn(title) /\ Len(parts) > 0 THEN DropLast(parts) ELSE parts

NoHeader == [some |-> FALSE, cells |-> <<>>]

\* lines 253-260: header_cells (None modelled as NoHeader)
HeaderCells(lst, title) ==
  IF lst # <<>> /\ ~ForceNoHeader(title)
       /\ Contains(lst[1], <<" ", "|", " ">>)
       /\ \E i \in 1..Len(Parts(lst[1])) : HasLetter(Parts(lst[1])[i])
    THEN [some |-> TRUE, cells |-> KeptCells(title, Parts(lst[1]))]
    ELSE NoHeader

\* `if header_cells`: neither None nor an empty list
HeaderShown(h) == h.some /\ h.cells # <<>>

EscapeAll(cells) == [i \in 1..Len(cells) |-> EscapeHtml(cells[i])]

\* lines 266-281: the escaped cell texts of the <tr> built for fragment `it`
\* (the first <td> is the bold one)
RowCells(it, title) ==
  IF Contains(it, <<" ", "|", " ">>)
    THEN EscapeAll(KeptCells(title, Parts(it)))
    ELSE <<EscapeHtml(it)>>

\* lines 287-297: display_title
DisplayTitle(title) ==
  IF Falsy(title) THEN None
  ELSE IF Contains(title, <<"n", "b", "a", "-", "r", "e", "f", "s", "-", "c", "o", "n", "t", "e", "n", "t">>) THEN <<"N", "B", "A", " ", "A", "s", "s", "i", "g", "n", "m", "e", "n", "t", "s">>
  ELSE IF Contains(title, <<"r", "e", "p", "l", "a", "y", "-", "c", "e", "n", "t", "e", "r", "-", "a", "s", "s", "i", "g", "n", "m", "e", "n", "t">>) THEN <<"R", "e", "p", "l", "a", "y", " ", "A", "s", "s", "i", "g", "n", "m", "e", "n", "t", "s">>
  ELSE IF Contains(title, <<"g", "l", "-", "r", "e", "f", "s", "-", "c", "o", "n", "t", "e", "n", "t">>) THEN <<"G", " ", "L", "e", "a", "g", "u", "e", " ", "A", "s", "s", "i", "g", "n", "m", "e", "n", "t", "s">>
  ELSE title

\* render_table_for_list(lst, title), lines 239-300.  The markup returned is
\* kept as its parts: the <h3> text ("" when there is none), the <th> texts
\* of the header row (none when header_html is ""), and the <td> texts of
\* each <tr> in rows_html.
RenderTableForList(lst, title) ==
  LET h == HeaderCells(lst, title)
      kept == IF HeaderShown(h) THEN Tail(lst) ELSE lst IN
  [h3 |-> IF Falsy(DisplayTitle(title)) THEN <<>> ELSE EscapeHtml(DisplayTitle(title)),
   th |-> IF HeaderShown(h) THEN EscapeAll(h.cells) ELSE <<>>,
   header |-> HeaderShown(h),
   rows |-> [i \in 1..Len(kept) |-> RowCells(kept[i], title)]]

\* format_html_body(items, source_url) for a dict, lines 303-310: one table
\* per items.items() entry, in that order
FormatHtmlBody(items) ==
  [i \in 1..Len(items) |-> RenderTableForList(items[i].val, items[i].key)]

Dashes(n) == [i \in 1..n |-> "-"]

\* lines 460-468: the lines the sections add to flat_lines
RECURSIVE SectionLines(_, _)
SectionLines(items, first_section) ==
  IF items = <<>> THEN <<>>
  ELSE LET sel == Head(items).key
           lst == Head(items).val IN
       IF lst = <<>> THEN SectionLines(Tail(items), first_section)
       ELSE (IF ~first_section
               THEN <<Dashes(20) \o <<" ">> \o sel \o <<" ">> \o Dashes(20)>>
               ELSE <<>>)
            \o lst \o SectionLines(Tail(items), FALSE)

\* lines 455-472: the plain-text body, as its lines ("\n".join)
NoResults(url, css_selector) ==
  <<<<"N", "o", " ", "r", "e", "s", "u", "l", "t", "s", " ", "f", "o", "u", "n", "d", " ", "w", "h", "e", "n", " ", "s", "c", "r", "a", "p", "i", "n", "g", " ">> \o url \o <<" ", "w", "i", "t", "h", " ", "s", "e", "l", "e", "c", "t", "o", "r", " ", "'">>
      \o css_selector \o <<"'", ".">>>>

PlainTextBody(items, url, css_selector) ==
  IF items = <<>>
    THEN NoResults(url, css_selector)
    ELSE <<<<"R", "e", "s", "u", "l", "t", "s", " ", "f", "r", "o", "m", " ">> \o url, Dashes(40)>>
           \o SectionLines(items, TRUE) \o <<Dashes(40)>>

\* render_table_for_list called on its own
RenderTable ==
  /\ rpc = "call"
  /\ r_out' = RenderTableForList(r_lst, r_title)
  /\ rpc' = "done"
  /\ UNCHANGED <<r_lst, r_title>>
  /\ UNCHANGED <<inputs, fetchVars, log, parseVars, mainVars, sendVars>>

\* -------------------------------------------------------------- delivery
\* what one delivery attempt may meet: an HTTP response or transport fault
\* of requests.post (SendGrid), or an SMTP session that works or raises
SmtpOutcomes == {[kind |-> "smtp_ok", code |-> 0], [kind |-> "smtp_error", code |-> 0]}

\* line 492: SendGrid if configured, otherwise SMTP
UsesSendGrid == ~Falsy(SENDGRID_API_KEY)

\* the try blocks of send_via_sendgrid (lines 401-412) and send_email
\* (lines 333-355): TRUE when the function returns from this attempt
SendReturns(out) ==
  IF out.kind = "smtp_ok" THEN TRUE
  ELSE IF out.kind = "smtp_error" \/ out.kind = "transport" THEN FALSE
  ELSE ~(out.code >= 500 \/ out.code = 429) /\ ~RaisesForStatus(out.code)

\* lines 489-503 up to the first attempt of the transport's loop; with
\* RETRIES < 1 the loop is empty and "Max retries exceeded" is raised
SendCall ==
  /\ pc = "deliver"
  /\ dpc = "idle"
  /\ d_last_exc' = "None"
  /\ IF ~UsesSendGrid /\ (Falsy(SMTP_HOST) \/ Falsy(EMAIL_FROM))
       THEN \* sys.exit(2), lines 496-501: SystemExit is no Exception
            /\ pc' = "exit" /\ exit_code' = 2
            /\ UNCHANGED <<dpc, d_attempt>>
       ELSE /\ IF RETRIES >= 1
                 THEN dpc' = "request" /\ d_attempt' = 1
                 ELSE dpc' = "raised" /\ d_attempt' = d_attempt
            /\ UNCHANGED <<pc, exit_code>>
  /\ UNCHANGED <<body, html_body, stdout, log>>
  /\ UNCHANGED <<inputs, fetchVars, parseVars, renderVars>>

\* one attempt of the transport's loop, lines 400-415 / 331-358
SendAttempt(out) ==
  /\ dpc = "request"
  /\ out \in (IF UsesSendGrid THEN Responses ELSE SmtpOutcomes)
  /\ log' = Append(log, Event("send", d_attempt, out.kind, out.code, 0, 0))
  /\ IF SendReturns(out)
       THEN dpc' = "returned" /\ d_last_exc' = d_last_exc
       ELSE /\ d_last_exc' = out.kind
            /\ dpc' = IF LoopEnds(d_attempt, RETRIES) THEN "raised" ELSE "sleep"
  /\ UNCHANGED d_attempt
  /\ UNCHANGED <<inputs, fetchVars, parseVars, mainVars, renderVars>>

\* lines 417-421 / 360-364
SendSleep(jitter) ==
  /\ dpc = "sleep"
  /\ LET backoff == Backoff(d_attempt, BACKOFF_FACTOR, MAX_BACKOFF) IN
       /\ jitter \in Jitters(backoff)
       /\ log' = Append(log, Event("send_sleep", d_attempt, "", 0, backoff, jitter))
  /\ d_attempt' = d_attempt + 1
  /\ dpc' = "request"
  /\ UNCHANGED d_last_exc
  /\ UNCHANGED <<inputs, fetchVars, parseVars, mainVars, renderVars>>

\* ------------------------------------------------------------------ main()
\* lines 37-39: CSS_SELECTORS from the comma-separated CSS_SELECTOR
CssSelectors(css_selector) ==
  LET raw == Split(css_selector, ",") IN [i \in 1..Len(raw) |-> Strip(raw[i])]

\* the test of line 435
ConfigIncomplete ==
  Falsy(SENDGRID_API_KEY)
    /\ (Falsy(EMAIL_TO) \/ Falsy(EMAIL_FROM) \/ Falsy(SMTP_HOST))

\* a faulty variant of ExitAfterSend: the delivery error is swallowed
ExitSwallowed(d) == 0
\* the exit status once the transport's call is over: `return 0` at line
\* 512, or the handler of lines 508-510
ExitAfterSend(d) == IF d = "returned" THEN 0 ELSE 1

\* a faulty variant of DryRunStops: --dry-run is ignored
DryRunIgnored(flag) == FALSE
\* the test of line 480
DryRunStops(flag) == flag

NotBuilt == [built |-> FALSE, value |-> <<>>]
Built(v) == [built |-> TRUE, value |-> v]

\* lines 430-437
MainStart ==
  /\ pc = "start"
  /\ IF Falsy(SCRAPE_URL) \/ ConfigIncomplete
       THEN pc' = "exit" /\ exit_code' = 2
       ELSE pc' = "fetch" /\ exit_code' = exit_code
  /\ UNCHANGED <<body, html_body, stdout>>
  /\ UNCHANGED <<inputs, fetchVars, log, parseVars, sendVars, renderVars>>

\* line 440 once fetch is over: on to parse, or the handler of lines 505-507
MainFetched ==
  /\ pc = "fetch"
  /\ fpc \in {"returned", "raised"}
  /\ IF fpc = "returned"
       THEN pc' = "parse" /\ exit_code' = exit_code
       ELSE pc' = "exit" /\ exit_code' = 1
  /\ UNCHANGED <<body, html_body, stdout>>
  /\ UNCHANGED <<inputs, fetchVars, log, parseVars, sendVars, renderVars>>

\* lines 441-487 once parse has returned: inspection output, or the two
\* bodies and then the dry-run output or the way on to delivery
MainRender ==
  /\ pc = "parse"
  /\ ppc = "returned"
  /\ IF inspect
       THEN /\ stdout' = [i \in 1..Len(selectors) |-> "--- Selector ---"]
            /\ pc' = "exit" /\ exit_code' = 0
            /\ UNCHANGED <<body, html_body>>
       ELSE /\ body' = Built(PlainTextBody(results, SCRAPE_URL, CSS_SELECTOR))
            /\ html_body' = Built(FormatHtmlBody(results))
            /\ IF DryRunStops(dry_run)
                 THEN /\ stdout' = <<"--- DRY RUN ---", "subject", "body",
                                     "--- HTML preview ---", "html_body", "--- END ---">>
                      /\ pc' = "exit" /\ exit_code' = 0
                 ELSE /\ pc' = "deliver"
                      /\ UNCHANGED <<stdout, exit_code>>
  /\ UNCHANGED <<inputs, fetchVars, log, parseVars, sendVars, renderVars>>

\* the transport's call is over: line 512, or the handler of lines 508-510
MainDelivered ==
  /\ pc = "deliver"
  /\ dpc \in {"returned", "raised"}
  /\ pc' = "exit"
  /\ exit_code' = ExitAfterSend(dpc)
  /\ UNCHANGED <<body, html_body, stdout>>
  /\ UNCHANGED <<inputs, fetchVars, log, parseVars, sendVars, renderVars>>

MainIdle ==
  /\ exit_code = -1
  /\ body = NotBuilt
  /\ html_body = NotBuilt
  /\ stdout = <<>>

SendIdle ==
  /\ dpc = "idle"
  /\ d_attempt = 0
  /\ d_last_exc = "None"

RenderIdle ==
  /\ r_lst = <<>>
  /\ r_title = None
  /\ rpc = "idle"
  /\ r_out = RenderTableForList(<<>>, None)

\* ============================================================ the inputs
\* selectors the runs are configured with
SelBody == <<"b", "o", "d", "y">>
SelP == <<"p">>
SelNba == <<".", "n", "b", "a", "-", "r", "e", "f", "s", "-", "c", "o", "n", "t", "e", "n", "t">>
SelGl == <<".", "g", "l", "-", "r", "e", "f", "s", "-", "c", "o", "n", "t", "e", "n", "t">>
SelReplay == <<".", "r", "e", "p", "l", "a", "y", "-", "c", "e", "n", "t", "e", "r", "-", "a", "s", "s", "i", "g", "n", "m", "e", "n", "t">>
SelectorPool == {SelBody, SelP, SelNba, SelGl, SelReplay}

\* nodes a selector may match
TrAB == Node("tr", <<<<"A">>, <<"B">>>>, <<>>, <<"A", " ", "B">>, None, None)
TrNoCells == Node("tr", <<>>, <<>>, <<>>, None, None)
TableABCD ==
  Node("table", <<<<"A">>, <<"B">>, <<"C">>, <<"D">>>>,
       <<<<<<"A">>, <<"B">>>>, <<>>, <<<<"C">>, <<"D">>>>>>, <<"A", " ", "B", " ", "C", " ", "D">>, None, None)
DivWithRow == Node("div", <<<<"1">>>>, <<<<<<"1">>>>>>, <<"1">>, None, None)
EmptyDiv == Node("div", <<>>, <<>>, <<>>, None, None)
TextP == Node("p", <<>>, <<>>, <<"x">>, None, None)
LinkA == Node("a", <<>>, <<>>, <<"y">>, <<"/", "u">>, None)
DivWithLink == Node("div", <<>>, <<>>, <<>>, None, <<"/", "v">>)

NoMatch == [s \in SelectorPool |-> <<>>]
SamePage(nodes) == [s \in SelectorPool |-> nodes]

RECURSIVE SeqsUpTo(_, _)
SeqsUpTo(S, n) ==
  IF n = 0 THEN {<<>>}
  ELSE LET shorter == SeqsUpTo(S, n - 1) IN
       shorter \cup {Append(q, x) : q \in shorter, x \in S}

DefaultConfig ==
  /\ RETRIES = 3
  /\ BACKOFF_FACTOR = 1000
  /\ MAX_BACKOFF = 60000

DefaultMainArgs ==
  /\ SCRAPE_URL = <<"h", "t", "t", "p", ":", "/", "/", "u">>
  /\ CSS_SELECTOR = SelBody
  /\ SENDGRID_API_KEY = <<"S", "G", ".", "k">>
  /\ EMAIL_TO = <<>> /\ EMAIL_FROM = <<>> /\ SMTP_HOST = <<>>
  /\ dry_run = FALSE /\ inspect = FALSE

DefaultParseArgs ==
  /\ selectors = <<SelBody>>
  /\ max_items = 20
  /\ page = NoMatch

\* ------------------------------------------------- fetch(url) on its own
BackoffFactors == {0, 1000, 2500}
MaxBackoffs == {0, 1500, 60000}
AllJitters ==
  UNION {Jitters(Backoff(k, f, c)) :
           k \in 1..(MaxRetries + 1), f \in BackoffFactors, c \in MaxBackoffs}

InitFetch ==
  /\ RETRIES \in 0..MaxRetries
  /\ BACKOFF_FACTOR \in BackoffFactors
  /\ MAX_BACKOFF \in MaxBackoffs
  /\ DefaultMainArgs /\ DefaultParseArgs
  /\ pc = "fetch"
  /\ FetchIdle /\ ParseIdle /\ MainIdle /\ SendIdle /\ RenderIdle

NextFetch ==
  \/ FetchCall
  \/ \E resp \in Responses : FetchAttempt(resp)
  \/ \E jitter \in AllJitters : FetchSleep(jitter)

SpecFetch == InitFetch /\ [][NextFetch]_vars

\* ------------------------------- parse(html, selectors, max_items) on its own
ParseNodePool == {TrAB, TableABCD, EmptyDiv, TextP, LinkA}
ParseSelectorLists ==
  {<<>>, <<SelP>>, <<SelReplay>>, <<SelP, SelReplay>>, <<SelP, SelP>>,
   <<SelGl, SelP, SelNba>>}

InitParse ==
  /\ selectors \in ParseSelectorLists
  /\ max_items \in 0..MaxItems
  /\ page \in {SamePage(nodes) : nodes \in SeqsUpTo(ParseNodePool, MaxNodes)}
  /\ DefaultConfig /\ DefaultMainArgs
  /\ pc = "parse"
  /\ FetchIdle /\ ParseIdle /\ MainIdle /\ SendIdle /\ RenderIdle

NextParse ==
  \/ ParseCall
  \/ ParseNode
  \/ ParseRow
  \/ ParseEndSelector

SpecParse == InitParse /\ [][NextParse]_vars

\* ----------------------------- render_table_for_list(lst, title) on its own
FragmentPool ==
  {<<"A", " ", "|", " ", "B", " ", "|", " ", "C">>, <<"N", "a", "m", "e", " ", "|", " ", "T", "e", "a", "m">>, <<"R", "e", "f", "1", " ", "|", " ", "L", "a", "k", "e", "r", "s">>, <<"1", " ", "|", " ", "2">>, <<"x">>,
   <<"A", "|", "B">>, <<"a", "<", "b", " ", "|", " ", "7", " ", "|", " ">>, <<"y", " ", EmDash, " ", "/", "u">>,
   <<EAcute, " ", "|", " ", "1">>}
RenderTitles == {None, SelP, SelNba, SelGl, SelReplay}

InitRender ==
  /\ r_lst \in SeqsUpTo(FragmentPool, MaxFrags)
  /\ r_title \in RenderTitles
  /\ rpc = "call"
  /\ r_out = RenderTableForList(<<>>, None)
  /\ DefaultConfig /\ DefaultMainArgs /\ DefaultParseArgs
  /\ pc = "render"
  /\ FetchIdle /\ ParseIdle /\ MainIdle /\ SendIdle

NextRender == RenderTable

SpecRender == InitRender /\ [][NextRender]_vars

\* ------------------------------------------------------------ a run of main
MainResponses == {r \in Responses : r.code \in {0, 200, 503}}
CssSelectorStrings ==
  {<<"b", "o", "d", "y">>, <<".", "n", "b", "a", "-", "r", "e", "f", "s", "-", "c", "o", "n", "t", "e", "n", "t", ",", " ", ".", "g", "l", "-", "r", "e", "f", "s", "-", "c", "o", "n", "t", "e", "n", "t">>,
   <<".", "g", "l", "-", "r", "e", "f", "s", "-", "c", "o", "n", "t", "e", "n", "t", ",", ".", "n", "b", "a", "-", "r", "e", "f", "s", "-", "c", "o", "n", "t", "e", "n", "t">>,
   <<"p", ",", "p">>, <<"p", " ", ",", " ", ".", "r", "e", "p", "l", "a", "y", "-", "c", "e", "n", "t", "e", "r", "-", "a", "s", "s", "i", "g", "n", "m", "e", "n", "t", ",", "p">>}
Pages ==
  {NoMatch,
   SamePage(<<TableABCD, EmptyDiv, TextP, LinkA>>),
   [s \in SelectorPool |->
      IF s = SelNba THEN <<>>
      ELSE IF s = SelGl THEN <<TrNoCells, TrAB, DivWithRow>>
      ELSE IF s = SelP THEN <<DivWithLink, TextP>>
      ELSE <<EmptyDiv, LinkA>>]}
\* the jitter drawn in a run of main (fetch on its own draws the others)
MainJitters == {0}
Strings == {<<>>, <<"s", "e", "t">>}

InitMain ==
  /\ RETRIES \in 0..MainMaxRetries
  /\ BACKOFF_FACTOR = 1000
  /\ MAX_BACKOFF = 60000
  /\ SCRAPE_URL \in {None, <<"h", "t", "t", "p", ":", "/", "/", "u">>}
  /\ CSS_SELECTOR \in CssSelectorStrings
  /\ SENDGRID_API_KEY \in Strings
  /\ EMAIL_TO \in Strings /\ EMAIL_FROM \in Strings /\ SMTP_HOST \in Strings
  /\ dry_run \in BOOLEAN /\ inspect \in BOOLEAN
  /\ selectors = CssSelectors(CSS_SELECTOR)
  /\ max_items \in {3, 20}
  /\ page \in Pages
  /\ pc = "start"
  /\ FetchIdle /\ ParseIdle /\ MainIdle /\ SendIdle /\ RenderIdle

NextMain ==
  \/ MainStart
  \/ FetchCall
  \/ \E resp \in MainResponses : FetchAttempt(resp)
  \/ \E jitter \in MainJitters : FetchSleep(jitter)
  \/ MainFetched
  \/ ParseCall
  \/ ParseNode
  \/ ParseRow
  \/ ParseEndSelector
  \/ MainRender
  \/ SendCall
  \/ \E out \in MainResponses \cup SmtpOutcomes : SendAttempt(out)
  \/ \E jitter \in MainJitters : SendSleep(jitter)
  \/ MainDelivered

SpecMain == InitMain /\ [][NextMain]_vars



\* ======================================================== claims: fetch
Requests == {i \in 1..Len(log) : log[i].ev = "request"}
Sleeps == {i \in 1..Len(log) : log[i].ev = "sleep"}
LastRequest == log[CHOOSE i \in Requests : \A j \in Requests : j <= i]

ClientError(e) ==
  e.kind = "status" /\ 400 <= e.code /\ e.code < 500 /\ e.code # 429
RetryableFault(e) ==
  e.kind = "transport" \/ (e.kind = "status" /\ (e.code >= 500 \/ e.code = 429))
FailedAttempt(e) == RetryableFault(e) \/ ClientError(e)

\* C1: an attempt that receives a 4xx status other than 429 is the last thing
\* fetch does: it has failed at once, with no later request and no sleep.
C1_ClientErrorFailsImmediately ==
  \A i \in Requests :
    ClientError(log[i]) => (i = Len(log) /\ fpc = "raised")

\* the fault a retryable attempt leaves behind
FaultSeen(e) ==
  IF e.kind = "transport" THEN TransportError ELSE ServerReturned(e.code)

\* C2: fetch makes at most RETRIES requests; when all RETRIES attempts ended
\* in a retryable fault it raises ScrapeError whose cause is the fault of the
\* last attempt; it returns content only from an attempt whose status is
\* neither retryable nor an error status.
C2_BoundedAttemptsLastFault ==
  /\ Cardinality(Requests) <= RETRIES
  /\ (fpc = "raised" /\ RETRIES >= 1 /\ \A i \in Requests : RetryableFault(log[i]))
       => /\ Cardinality(Requests) = RETRIES
          /\ fetch_exc.kind = "ScrapeError"
          /\ fetch_exc.cause = FaultSeen(LastRequest)
  /\ fpc = "returned"
       => /\ Requests # {}
          /\ LastRequest.kind = "status"
          /\ ~RetryableFault(LastRequest)
          /\ LastRequest.code < 400
          /\ fetch_ret = "r.text"
  /\ fpc # "returned" => fetch_ret = "None"

C2_Witness ==
  /\ fpc = "raised"
  /\ RETRIES = 3
  /\ Cardinality(Requests) = 3
  /\ \A i \in Requests : RetryableFault(log[i])
  /\ log[1].code = 503
  /\ LastRequest.kind = "transport"
  /\ fetch_exc.cause = TransportError

Budget == max_items \div Len(selectors)

\* C3: with k > 0 selectors and budget m >= 0, in every state during and
\* after parse no selector's fragment list has more than floor(m / k)
\* entries, whether they come from rows, table-like nodes or ordinary nodes.
C3_BudgetInvariant ==
  (selectors # <<>> /\ max_items >= 0)
    => /\ Len(selector_results) <= Budget
       /\ \A i \in 1..Len(results) : Len(results[i].val) <= Budget

C3_Witness ==
  /\ ppc = "returned"
  /\ Len(selectors) = 3 /\ max_items = 4
  /\ page[SelP] = <<TableABCD, TextP, TrAB>>
  /\ \A i \in 1..Len(results) : Len(results[i].val) = 1

\* every fragment the matched nodes can produce, in document order
NodeFragments(selector, n) ==
  IF n.name = "tr"
    THEN IF n.cells # <<>> THEN <<RowText(n.cells)>> ELSE <<>>
  ELSE IF n.name \in {"table", "tbody", "thead"} \/ n.rows # <<>>
    THEN LET full == SelectSeq(n.rows, LAMBDA r : r # <<>>) IN
         [i \in 1..Len(full) |-> RowText(full[i])]
  ELSE OrdinaryFragments(selector, n)

RECURSIVE AllFragments(_, _)
AllFragments(selector, nodes) ==
  IF nodes = <<>> THEN <<>>
  ELSE NodeFragments(selector, Head(nodes)) \o AllFragments(selector, Tail(nodes))

Take(xs, n) == SubSeq(xs, 1, Min(n, Len(xs)))

\* an ordinary node without text and without link target
EmptyOrdinary(n) ==
  n.name # "tr" /\ ~IsTableLike(n) /\ n.text = <<>> /\ Falsy(LinkTarget(n))

\* C9: ordinary nodes with empty text and no link target produce nothing and
\* use no budget: a selector with budget b ends with the fragments of the
\* first b fragment-producing nodes in document order (all, if fewer).
C9_EmptyNodesUseNoBudget ==
  (ppc = "returned" /\ max_items >= 0)
    => \A i \in 1..Len(selectors) :
         LET s == selectors[i]
             nodes == page[s] IN
         (\A j \in 1..Len(nodes) :
            (nodes[j].name # "tr" /\ ~IsTableLike(nodes[j])
               /\ OrdinaryFragments(s, nodes[j]) = <<>>) => EmptyOrdinary(nodes[j]))
           => DictGet(results, s) = Take(AllFragments(s, nodes), items_per_selector)

\* ========================================================= claims: main
RECURSIVE Distinct(_)
\* the selectors in order of first occurrence
Distinct(sels) ==
  IF sels = <<>> THEN <<>>
  ELSE <<Head(sels)>> \o SelectSeq(Distinct(Tail(sels)), LAMBDA s : s # Head(sels))

HtmlSectionsOf(sels) ==
  [i \in 1..Len(sels) |-> RenderTableForList(DictGet(results, sels[i]), sels[i])]

RECURSIVE TextSectionsOf(_)
\* the section lines of the plain-text body for the non-empty selectors
TextSectionsOf(sels) ==
  IF sels = <<>> THEN <<>>
  ELSE TextSectionsOf(DropLast(sels))
         \o (IF TextSectionsOf(DropLast(sels)) = <<>> THEN <<>>
             ELSE <<Dashes(20) \o <<" ">> \o sels[Len(sels)] \o <<" ">> \o Dashes(20)>>)
         \o DictGet(results, sels[Len(sels)])

TextBodyOf(sels) ==
  LET full == SelectSeq(sels, LAMBDA s : DictGet(results, s) # <<>>) IN
  <<<<"R", "e", "s", "u", "l", "t", "s", " ", "f", "r", "o", "m", " ">> \o SCRAPE_URL, Dashes(40)>>
    \o TextSectionsOf(full) \o <<Dashes(40)>>

\* C4 as stated: the mapping's keys are the input selectors in input order,
\* the HTML body has one section per input selector in that order and the
\* plain-text body lists the non-empty ones in that order.
C4_SectionsFollowInputSelectors ==
  /\ ppc = "returned" => DictKeys(results) = selectors
  /\ html_body.built
       => /\ \A i \in 1..Len(selectors) : DictHas(results, selectors[i])
          /\ html_body.value = HtmlSectionsOf(selectors)
          /\ body.value = TextBodyOf(selectors)

\* C4 amended: the keys are the distinct input selectors in order of first
\* occurrence (the input order when none repeats); the HTML body has one
\* section per distinct selector in that order, empty ones included, and the
\* plain-text body lists the non-empty ones in that order.
C4_SectionsFollowDistinctSelectors ==
  /\ ppc = "returned" => DictKeys(results) = Distinct(selectors)
  /\ html_body.built
       => /\ html_body.value = HtmlSectionsOf(Distinct(selectors))
          /\ body.value = TextBodyOf(Distinct(selectors))

C4_Witness ==
  /\ html_body.built
  /\ selectors = <<SelP, SelReplay, SelP>>
  /\ DictKeys(results) = <<SelP, SelReplay>>
  /\ DictGet(results, SelP) # <<>> /\ DictGet(results, SelReplay) # <<>>
  /\ Len(html_body.value) = 2
  /\ \E i \in 1..Len(body.value) :
       body.value[i] = Dashes(20) \o <<" ">> \o SelReplay \o <<" ">> \o Dashes(20)

\* C5: when no fragment was extracted for any selector, the plain-text body
\* is exactly the no-results message naming the URL and the selector string,
\* and both bodies are built without an error.
C5_EmptyResultGivesNoResultsMessage ==
  (pc \in {"deliver", "exit"} /\ fpc = "returned" /\ ppc = "returned" /\ ~inspect
     /\ \A i \in 1..Len(results) : results[i].val = <<>>)
    => /\ body.built /\ html_body.built
       /\ body.value =
            <<<<"N", "o", " ", "r", "e", "s", "u", "l", "t", "s", " ", "f", "o", "u", "n", "d", " ", "w", "h", "e", "n", " ", "s", "c", "r", "a", "p", "i", "n", "g", " ">> \o SCRAPE_URL
                \o <<" ", "w", "i", "t", "h", " ", "s", "e", "l", "e", "c", "t", "o", "r", " ", "'">> \o CSS_SELECTOR \o <<"'", ".">>>>

Sends == {i \in 1..Len(log) : log[i].ev \in {"send", "send_sleep"}}

ConfigurationError ==
  \/ SCRAPE_URL = None \/ SCRAPE_URL = <<>>
  \/ /\ SENDGRID_API_KEY = <<>>
     /\ (SMTP_HOST = <<>> \/ EMAIL_FROM = <<>> \/ EMAIL_TO = <<>>)

\* C7: the exit status is 2 exactly when the configuration is in error, and
\* then nothing was fetched or delivered; it is 1 when fetch exhausted its
\* attempts or delivery failed after a successful fetch and render; it is 0
\* only when delivery succeeded or the run ended early in dry-run or
\* inspection mode.
C7_ExitStatus ==
  /\ exit_code \in {-1, 0, 1, 2}
  /\ pc = "exit" <=> exit_code # -1
  /\ pc = "exit" => (exit_code = 2 <=> ConfigurationError)
  /\ ConfigurationError => (log = <<>> /\ fpc = "idle" /\ dpc = "idle")
  /\ (pc = "exit" /\ fpc = "raised") => exit_code = 1
  /\ (pc = "exit" /\ dpc = "raised")
       => (exit_code = 1 /\ fpc = "returned" /\ html_body.built)
  /\ exit_code = 0
       => \/ dpc = "returned"
          \/ (dry_run \/ inspect) /\ stdout # <<>> /\ dpc = "idle"

C7_Witness ==
  /\ pc = "exit" /\ exit_code = 1
  /\ dpc = "raised" /\ fpc = "returned" /\ html_body.built
  /\ ~UsesSendGrid

\* ======================================================= claims: render
FirstCells(f) == SubSeq(Parts(f), 1, Len(Parts(f)) - 1)
Delimited(f) == Contains(f, <<" ", "|", " ">>)

\* the fragment the j-th <tr> of rows_html was built from
DataFragment(j) == r_lst[IF r_out.header THEN j + 1 ELSE j]

\* C8: for a title containing "gl-refs-content" the header row and every
\* data row built from a fragment of n >= 2 cells has exactly the first n-1
\* cells, in order; ["A | B | C"] gives the single row ["A", "B"]; for any
\* other title every row keeps all its cells.
C8_ColumnDrop ==
  rpc = "done"
    => /\ Len(r_out.rows) = Len(r_lst) - (IF r_out.header THEN 1 ELSE 0)
       /\ r_out.header
            => r_out.th = EscapeAll(IF DropLastColumn(r_title)
                                      THEN FirstCells(r_lst[1]) ELSE Parts(r_lst[1]))
       /\ \A j \in 1..Len(r_out.rows) :
            r_out.rows[j] =
              IF ~Delimited(DataFragment(j)) THEN <<EscapeHtml(DataFragment(j))>>
              ELSE IF r_title # None /\ Contains(r_title, <<"g", "l", "-", "r", "e", "f", "s", "-", "c", "o", "n", "t", "e", "n", "t">>)
                THEN EscapeAll(FirstCells(DataFragment(j)))
              ELSE EscapeAll(Parts(DataFragment(j)))
       /\ (r_title = SelGl /\ r_lst = <<<<"A", " ", "|", " ", "B", " ", "|", " ", "C">>>>)
            => (r_out.th = <<<<"A">>, <<"B">>>> /\ r_out.rows = <<>>)

C8_Witness ==
  /\ rpc = "done"
  /\ r_title = SelGl
  /\ r_lst = <<<<"A", " ", "|", " ", "B", " ", "|", " ", "C">>, <<"a", "<", "b", " ", "|", " ", "7", " ", "|", " ">>>>
  /\ r_out.th = <<<<"A">>, <<"B">>>>
  /\ r_out.rows = <<<<<<"a", "&", "l", "t", ";", "b">>, <<"7">>>>>>


\* the title holds the header-suppression substring "nba-refs-content"
Suppressed(title) == title # None /\ Contains(title, <<"n", "b", "a", "-", "r", "e", "f", "s", "-", "c", "o", "n", "t", "e", "n", "t">>)

\* a character of A-Z or a-z
AsciiLetter(c) == c \in Letters
\* an alphabetic character: a letter of any alphabet
Alphabetic(c) == c \in Letters \cup {EAcute}

\* f holds " | " and some trimmed part of f holds a character satisfying Op
HeaderLike(f, Op(_)) ==
  /\ Delimited(f)
  /\ \E i \in 1..Len(Parts(f)) : \E k \in 1..Len(Parts(f)[i]) : Op(Parts(f)[i][k])

\* the title does not suppress the header and the first fragment is header-like
FirstIsHeaderLike(Op(_)) ==
  ~Suppressed(r_title) /\ r_lst # <<>> /\ HeaderLike(r_lst[1], Op)

\* the first cell of the row a fragment is rendered as
LeadCell(f) == EscapeHtml(IF Delimited(f) THEN Parts(f)[1] ELSE f)

NameTeam == <<<<"N", "a", "m", "e", " ", "|", " ", "T", "e", "a", "m">>, <<"R", "e", "f", "1", " ", "|", " ", "L", "a", "k", "e", "r", "s">>>>

\* the rendering of r_lst under r_title has a header row exactly when
\* `expected`, the header row is the first fragment, and the data rows are the
\* other fragments (all of them when there is no header), one row each in
\* order
HeaderRule(expected) ==
  /\ r_out.header <=> expected
  /\ r_out.header
       => /\ r_out.th # <<>>
          /\ Head(r_out.th) = LeadCell(r_lst[1])
          /\ ~DropLastColumn(r_title) => r_out.th = EscapeAll(Parts(r_lst[1]))
          /\ Len(r_out.rows) = Len(r_lst) - 1
          /\ \A j \in 1..Len(r_out.rows) : Head(r_out.rows[j]) = LeadCell(r_lst[j + 1])
  /\ ~r_out.header
       => /\ r_out.th = <<>>
          /\ Len(r_out.rows) = Len(r_lst)
          /\ \A j \in 1..Len(r_out.rows) : Head(r_out.rows[j]) = LeadCell(r_lst[j])
  /\ (IF r_out.header THEN 1 ELSE 0) + Len(r_out.rows) = Len(r_lst)
  /\ (r_lst = NameTeam /\ ~Suppressed(r_title) /\ ~DropLastColumn(r_title))
       => /\ r_out.th = <<<<"N", "a", "m", "e">>, <<"T", "e", "a", "m">>>>
          /\ r_out.rows = <<<<<<"R", "e", "f", "1">>, <<"L", "a", "k", "e", "r", "s">>>>>>

\* C11 as stated: for a title without "nba-refs-content" the first fragment
\* is the header row, and is left out of the data rows, if and only if it
\* holds " | " and one of its trimmed parts holds an alphabetic character;
\* otherwise, and always for a title with "nba-refs-content", there is no
\* header and every fragment is exactly one data row; header rows plus data
\* rows equal the number of fragments; ["Name | Team", "Ref1 | Lakers"] gives
\* the header ["Name", "Team"] and the one data row ["Ref1", "Lakers"].
C11_HeaderIffAlphabeticPart ==
  rpc = "done"
    => HeaderRule(FirstIsHeaderLike(Alphabetic))

\* C11 amended: as above, with "a letter of A-Z or a-z" in place of "an
\* alphabetic character"; the example is for a title that holds neither
\* "nba-refs-content" nor "gl-refs-content".
C11_HeaderIffAsciiLetterPart ==
  rpc = "done"
    => HeaderRule(FirstIsHeaderLike(AsciiLetter))

C11_Witness ==
  /\ rpc = "done"
  /\ r_title = SelReplay
  /\ r_lst = NameTeam
  /\ r_out.header
  /\ r_out.th = <<<<"N", "a", "m", "e">>, <<"T", "e", "a", "m">>>>
  /\ r_out.rows = <<<<<<"R", "e", "f", "1">>, <<"L", "a", "k", "e", "r", "s">>>>>>
====
